---------------------------- MODULE Spec2Model ----------------------------
(***************************************************************************)
(* ERA5 request pipelines (ERA5_request.py, ERA5_analysis_request.py) and  *)
(* the month-advance utility (ERA5_utilities.py).                          *)
(*                                                                         *)
(* Both scripts are the same double loop: for every month of the           *)
(* configured range, compute the overlapping date window, and for every    *)
(* configured variable look its metadata up, assemble the request options  *)
(* and hand them to the retrieval client.  The two scripts differ in the   *)
(* metadata columns they read and in the tag used in the output file name. *)
(* The variable "pipeline" selects the script.                             *)
(*                                                                         *)
(* Calendar dates are records [year, month, day]; strings are TLA+ strings *)
(* built with \o exactly as the scripts build them with +.                 *)
(***************************************************************************)
EXTENDS Integers, Sequences, FiniteSets, TLC

VARIABLES
    pipeline,         \* "request" (ERA5_request.py) or "analysis" (ERA5_analysis_request.py)
    year_start, month_start, year_end, month_end,   \* user options: date limits
    n_overlap,        \* user option: overlapping days
    time,             \* user option: request hours
    variables,        \* user option: list of variable identifiers
    era5,             \* metadata table loaded from the JSON file
    monthly_date,     \* monthly_date / mdate: the month cursor
    j, k,             \* loop indices
    year, month,      \* year and month of the month being processed
    vdate,            \* vdate / date: the overlapping date interval string
    requests,         \* every c.retrieve invocation so far, in order
    files,            \* output paths written by completed retrievals
    visited,          \* the (year, month) pairs the outer loop body was entered with
    advances,         \* how often the month cursor was advanced
    success_printed,  \* the final "done successfully" message was printed
    error,            \* the exception that ended the run, "none" otherwise
    pc,               \* "loop", "vars", "done" or "aborted"
    fn_date, fn_n, fn_result, fn_pc   \* one application of the month-advance function

runVars == <<pipeline, year_start, month_start, year_end, month_end, n_overlap,
             time, variables, era5, monthly_date, j, k, year, month, vdate,
             requests, files, visited, advances,
             success_printed, error, pc>>
fnVars == <<fn_date, fn_n, fn_result, fn_pc>>
vars == <<runVars, fnVars>>

---------------------------------------------------------------------------
(* Bounds of the model *)

\* longest configured range, in months
MaxMonths == 3
\* how far the end month may precede the start month (non-positive lengths)
MaxBack == 2
\* largest number of overlapping days
MaxOverlap == 2
\* longest list of configured variables
MaxVars == 2
\* largest month count handed to the month-advance function
MaxAdd == 25

\* datetime.MINYEAR and datetime.MAXYEAR: the years datetime.date accepts
MINYEAR == 1
MAXYEAR == 9999

---------------------------------------------------------------------------
(* Calendar arithmetic of the calendar and datetime modules *)

isleap(y) == y % 4 = 0 /\ (y % 100 # 0 \/ y % 400 = 0)

mdays == <<31, 28, 31, 30, 31, 30, 31, 31, 30, 31, 30, 31>>

\* calendar.monthrange(year, month)[1]
monthrange(y, m) == mdays[m] + (IF m = 2 /\ isleap(y) THEN 1 ELSE 0)

\* The value that stands for the ValueError datetime.date raises
ValueError == [year |-> 0, month |-> 0, day |-> 0]

\* datetime.date(year, month, day) / datetime.datetime(year, month, day)
Date(y, m, d) ==
    IF /\ MINYEAR <= y /\ y <= MAXYEAR
       /\ 1 <= m /\ m <= 12
       /\ 1 <= d /\ d <= monthrange(y, m)
    THEN [year |-> y, month |-> m, day |-> d]
    ELSE ValueError

days_before_year(y) ==
    LET p == y - 1 IN p * 365 + (p \div 4) - (p \div 100) + (p \div 400)

RECURSIVE days_before_month(_, _)
days_before_month(y, m) ==
    IF m = 1 THEN 0 ELSE days_before_month(y, m - 1) + monthrange(y, m - 1)

\* datetime.date.toordinal
toordinal(d) == days_before_year(d.year) + days_before_month(d.year, d.month) + d.day

DI400Y == days_before_year(401)
DI100Y == days_before_year(101)
DI4Y == days_before_year(5)

\* datetime.date.fromordinal
fromordinal(n) ==
    LET n0 == n - 1
        n400 == n0 \div DI400Y
        r400 == n0 % DI400Y
        n100 == r400 \div DI100Y
        r100 == r400 % DI100Y
        n4 == r100 \div DI4Y
        r4 == r100 % DI4Y
        n1 == r4 \div 365
        r1 == r4 % 365
        y == n400 * 400 + 1 + n100 * 100 + n4 * 4 + n1
        leapyear == n1 = 3 /\ (n4 # 24 \/ n100 = 3)
        m0 == (r1 + 50) \div 32
        before(m) == days_before_month(2001, m) + (IF m > 2 /\ leapyear THEN 1 ELSE 0)
        m == IF before(m0) > r1 THEN m0 - 1 ELSE m0
    IN  IF n1 = 4 \/ n100 = 4
        THEN [year |-> y - 1, month |-> 12, day |-> 31]
        ELSE [year |-> y, month |-> m, day |-> r1 - before(m) + 1]

---------------------------------------------------------------------------
(* String conversions *)

DigitChar(d) ==
    CASE d = 0 -> "0" [] d = 1 -> "1" [] d = 2 -> "2" [] d = 3 -> "3" [] d = 4 -> "4"
      [] d = 5 -> "5" [] d = 6 -> "6" [] d = 7 -> "7" [] d = 8 -> "8" [] d = 9 -> "9"

\* str(n) for n >= 0
RECURSIVE str(_)
str(n) == IF n < 10 THEN DigitChar(n) ELSE str(n \div 10) \o DigitChar(n % 10)

\* s.zfill(width)
RECURSIVE zfill(_, _)
zfill(s, width) == IF Len(s) >= width THEN s ELSE zfill("0" \o s, width)

\* d.strftime('%Y-%m-%d')
strftime(d) == str(d.year) \o "-" \o zfill(str(d.month), 2) \o "-" \o zfill(str(d.day), 2)


\* vname.upper(), on the identifiers of the model
upper(s) ==
    CASE s = "sst" -> "SST"
      [] s = "q" -> "Q"
      [] s = "r" -> "R"
      [] s = "t2m" -> "T2M"
      [] s = "T2m" -> "T2M"
      [] s = "u10" -> "U10"
      [] OTHER -> s

---------------------------------------------------------------------------
(* User options and metadata *)

\* varea / area: [north, west, south, east]
varea == <<-30, -80, -40, -70>>

\* The hour lists a run may be configured with (the second one is the
\* commented-out alternative of ERA5_analysis_request.py)
Times == {"00/01/02/03/04/05/06/07/08/09/10/11/12/13/14/15/16/17/18/19/20/21/22/23",
          "00/06/12/18"}

\* ERA5_variables.json as ERA5_request.py reads it: identifier ->
\* [long name, units, abbreviation, level type]; columns 0 and 3 are read.
\* "T2m" is a second key spelling the identifier of "t2m" differently.
RequestTable ==
    [id \in {"sst", "q", "r", "t2m", "T2m"} |->
        CASE id = "sst" -> <<"sea_surface_temperature", "K", "SST", "sfc">>
          [] id = "q"   -> <<"specific_humidity", "kg kg**-1", "Q", "pl">>
          [] id = "r"   -> <<"relative_humidity", "%", "R", "pl">>
          [] id = "t2m" -> <<"2m_temperature", "K", "T2M", "sfc">>
          [] id = "T2m" -> <<"2m_temperature", "K", "T2M", "sfc">>]

\* era5_variables.json as ERA5_analysis_request.py reads it: long name ->
\* [units, level type, abbreviation]; columns 1 and 2 are read.
\* "skin_temperature" carries the abbreviation of "sea_surface_temperature".
AnalysisTable ==
    [id \in {"sea_surface_temperature", "specific_humidity", "relative_humidity",
             "2m_temperature", "skin_temperature"} |->
        CASE id = "sea_surface_temperature" -> <<"K", "sfc", "SST">>
          [] id = "specific_humidity"       -> <<"kg kg**-1", "pl", "Q">>
          [] id = "relative_humidity"       -> <<"%", "pl", "R">>
          [] id = "2m_temperature"          -> <<"K", "sfc", "T2M">>
          [] id = "skin_temperature"        -> <<"K", "sfc", "SST">>]

Table(p) == IF p = "request" THEN RequestTable ELSE AnalysisTable

\* The identifiers a variable list may name: the keys of the table and one
\* identifier the table does not hold.
RequestIdentifiers == DOMAIN RequestTable \cup {"u10"}
AnalysisIdentifiers == DOMAIN AnalysisTable \cup {"10m_u_component_of_wind"}

\* Three of them, one absent from the table, for the runs that range over
\* the calendar
FewRequestIdentifiers == {"sst", "q", "u10"}
FewAnalysisIdentifiers ==
    {"sea_surface_temperature", "specific_humidity", "10m_u_component_of_wind"}

VariableLists(ids) == UNION {[1..n -> ids] : n \in 0..MaxVars}

\* The years a run over the calendar may start in: the year before a leap
\* century year (1999) and that year (2000), a leap year followed by a common
\* year (2020), the year before a century year that is no leap year (2099),
\* and that century year (2100).
StartYears == {1999, 2000, 2020, 2099, 2100}

\* Mutant: the end month is left out of the count
len_monthly_dates_exclusive ==
    LET monthly_date_start == Date(year_start, month_start, 1)
        monthly_date_end == Date(year_end, month_end, 1)
    IN  (monthly_date_end.year - monthly_date_start.year) * 12
        + (monthly_date_end.month - monthly_date_start.month)

\* Length of monthly dates loop (len_monthly_dates / len_mdates)
len_monthly_dates ==
    LET monthly_date_start == Date(year_start, month_start, 1)
        monthly_date_end == Date(year_end, month_end, 1)
    IN  (monthly_date_end.year - monthly_date_start.year) * 12
        + (monthly_date_end.month - monthly_date_start.month) + 1


---------------------------------------------------------------------------
(* The body of the two loops *)

\* Mutant: the month is not made zero-based before the division
addmonths4date_one_based(date, addmonths) ==
    LET month0 == date.month + addmonths
        y == date.year + (month0 \div 12)
        m == (month0 % 12) + 1
        d == IF date.day < monthrange(y, m) THEN date.day ELSE monthrange(y, m)
    IN  Date(y, m, d)

\* Increment date by custom months (addmonths4date / add_months)
addmonths4date(date, addmonths) ==
    LET month0 == date.month - 1 + addmonths
        y == date.year + (month0 \div 12)
        m == (month0 % 12) + 1
        d == IF date.day < monthrange(y, m) THEN date.day ELSE monthrange(y, m)
    IN  Date(y, m, d)

\* Mutant: the overlap is subtracted at the end of the month too
date_interval_end_minus(y, m, overlap) ==
    LET days_in_month == monthrange(y, m)
        n_start == toordinal(Date(y, m, 1))
        n_end == toordinal(Date(y, m, days_in_month))
    IN  strftime(fromordinal(n_start - overlap)) \o "/"
        \o strftime(fromordinal(n_end - overlap))

\* Overlapping date string interval (vdate / date) of the month (y, m)
date_interval(y, m, overlap) ==
    LET days_in_month == monthrange(y, m)
        date_start == Date(y, m, 1)
        date_end == Date(y, m, days_in_month)
        n_start == toordinal(date_start)
        n_end == toordinal(date_end)
        datestr_start_overlap == strftime(fromordinal(n_start - overlap))
        datestr_end_overlap == strftime(fromordinal(n_end + overlap))
    IN  datestr_start_overlap \o "/" \o datestr_end_overlap

\* The name the special cases are decided on, which is also the request's
\* 'variable': vlong = era5[vname][0] (request), vname itself (analysis)
variable_name(p, table, vname) == IF p = "request" THEN table[vname][1] ELSE vname

\* vlevt = era5[vname][3] (request), era5[vname][1] (analysis)
level_type(p, table, vname) == IF p = "request" THEN table[vname][4] ELSE table[vname][2]

\* The tag of the file name: vname.upper() (request), vabbr = era5[vname][2] (analysis)
file_tag(p, table, vname) == IF p = "request" THEN upper(vname) ELSE table[vname][3]

\* Mutant: the configured hours for every variable
time_option_always_configured(vlong, hours) == hours

\* options['time']: variable without "diurnal variations", or the configured hours
time_option(vlong, hours) == IF vlong = "sea_surface_temperature" THEN "12" ELSE hours

\* Mutant: relative_humidity is forgotten
pressure_levels_specific_only(vlong) == vlong = "specific_humidity"

\* Product "pressure-levels" is asked for these variables
pressure_levels(vlong) == vlong = "specific_humidity" \/ vlong = "relative_humidity"

\* product
product_of(vlong) ==
    IF pressure_levels(vlong) THEN "reanalysis-era5-pressure-levels"
    ELSE "reanalysis-era5-single-levels"

\* Request options: the dictionary literal, then the keys added to it
request_options(date, vlong, vlevt, hours) ==
    LET base == [product_type |-> "reanalysis", type |-> "an", date |-> date,
                 variable |-> vlong, levtype |-> vlevt, area |-> varea,
                 format |-> "netcdf"]
        timed == base @@ [time |-> time_option(vlong, hours)]
    IN  IF pressure_levels(vlong) THEN timed @@ [pressure_level |-> "1000"] ELSE timed

\* Mutant: the month is left out of the file name
fname_without_month(tag, y, m) == "ERA5_ecmwf_" \o tag \o "_Y" \o str(y) \o ".nc"

\* Output filename
fname(tag, y, m) == "ERA5_ecmwf_" \o tag \o "_Y" \o str(y) \o "M" \o zfill(str(m), 2) \o ".nc"

\* Output directory: main_dir + '/ERA5' or main_dir + '/ERA5_analysis'
era5_dir(p) == "." \o (IF p = "request" THEN "/ERA5" ELSE "/ERA5_analysis")

output_path(p, tag, y, m) == era5_dir(p) \o "/" \o fname(tag, y, m)

\* The c.retrieve(product, options, output) call of variable k of the current month
retrieve_call ==
    LET vname == variables[k + 1]
        vlong == variable_name(pipeline, era5, vname)
        vlevt == level_type(pipeline, era5, vname)
    IN  [product |-> product_of(vlong),
         options |-> request_options(vdate, vlong, vlevt, time),
         output |-> output_path(pipeline, file_tag(pipeline, era5, vname), year, month),
         vname |-> vname, j |-> j, k |-> k, year |-> year, month |-> month]

---------------------------------------------------------------------------
(* The run of a script *)

config == <<pipeline, year_start, month_start, year_end, month_end, n_overlap,
            time, variables, era5>>

fnIdle ==
    /\ fn_date = ValueError
    /\ fn_n = 0
    /\ fn_result = ValueError
    /\ fn_pc = "idle"

\* The state after the user options are set, the table is loaded and the
\* month cursor is initialised, for start years, overlaps and hour lists drawn
\* from the given sets and variable lists over the given identifiers
RunInit(years, overlaps, hours, requestIds, analysisIds) ==
    /\ pipeline \in {"request", "analysis"}
    /\ year_start \in years
    /\ month_start \in 1..12
    /\ year_end \in {y + d : y \in years, d \in {-1, 0, 1}}
    /\ month_end \in 1..12
    /\ len_monthly_dates <= MaxMonths
    /\ len_monthly_dates > -MaxBack
    /\ n_overlap \in overlaps
    /\ time \in hours
    /\ variables \in VariableLists(IF pipeline = "request" THEN requestIds ELSE analysisIds)
    /\ era5 = Table(pipeline)
    /\ monthly_date = Date(year_start, month_start, 1)
    /\ j = 0
    /\ k = 0
    /\ year = 0
    /\ month = 0
    /\ vdate = ""
    /\ requests = <<>>
    /\ files = {}
    /\ visited = <<>>
    /\ advances = 0
    /\ success_printed = FALSE
    /\ error = "none"
    /\ pc = "loop"
    /\ fnIdle

\* Runs that range over the variable lists and hour lists, in and after 2020
\* with the overlap of the scripts
Init == RunInit({2020}, {1}, Times, RequestIdentifiers, AnalysisIdentifiers)

\* Runs that range over the calendar and the overlaps
InitCalendar ==
    RunInit(StartYears, 0..MaxOverlap,
            {"00/01/02/03/04/05/06/07/08/09/10/11/12/13/14/15/16/17/18/19/20/21/22/23"},
            FewRequestIdentifiers, FewAnalysisIdentifiers)

\* Mutant: the loop runs until the index equals the length
BeginMonth_until_equal ==
    /\ pc = "loop"
    /\ j # len_monthly_dates
    /\ year' = monthly_date.year
    /\ month' = monthly_date.month
    /\ vdate' = date_interval(monthly_date.year, monthly_date.month, n_overlap)
    /\ visited' = Append(visited, <<monthly_date.year, monthly_date.month>>)
    /\ k' = 0
    /\ pc' = "vars"
    /\ UNCHANGED <<config, monthly_date, j, requests, files, advances,
                   success_printed, error, fnVars>>

\* Monthly dates loop: the next month is entered and its date window computed
BeginMonth ==
    /\ pc = "loop"
    /\ j < len_monthly_dates
    /\ year' = monthly_date.year
    /\ month' = monthly_date.month
    /\ vdate' = date_interval(monthly_date.year, monthly_date.month, n_overlap)
    /\ visited' = Append(visited, <<monthly_date.year, monthly_date.month>>)
    /\ k' = 0
    /\ pc' = "vars"
    /\ UNCHANGED <<config, monthly_date, j, requests, files, advances,
                   success_printed, error, fnVars>>

\* Mutant: a variable the table lacks is skipped
LookupFail_skips ==
    /\ pc = "vars"
    /\ k < Len(variables)
    /\ variables[k + 1] \notin DOMAIN era5
    /\ k' = k + 1
    /\ UNCHANGED <<config, monthly_date, j, year, month, vdate, requests, files,
                   visited, advances, success_printed, error, pc, fnVars>>

\* Variables loop: era5[vname] raises KeyError
LookupFail ==
    /\ pc = "vars"
    /\ k < Len(variables)
    /\ variables[k + 1] \notin DOMAIN era5
    /\ error' = "KeyError"
    /\ pc' = "aborted"
    /\ UNCHANGED <<config, monthly_date, j, k, year, month, vdate, requests, files,
                   visited, advances, success_printed, fnVars>>

\* Variables loop: the request is made and the client writes the file
RequestOK ==
    /\ pc = "vars"
    /\ k < Len(variables)
    /\ variables[k + 1] \in DOMAIN era5
    /\ requests' = Append(requests, retrieve_call)
    /\ files' = files \cup {retrieve_call.output}
    /\ k' = k + 1
    /\ UNCHANGED <<config, monthly_date, j, year, month, vdate, visited, advances,
                   success_printed, error, pc, fnVars>>

\* Mutant: the failure of c.retrieve is caught and the loop goes on
RequestFail_caught ==
    /\ pc = "vars"
    /\ k < Len(variables)
    /\ variables[k + 1] \in DOMAIN era5
    /\ requests' = Append(requests, retrieve_call)
    /\ error' = "RetrieveError"
    /\ k' = k + 1
    /\ UNCHANGED <<config, monthly_date, j, year, month, vdate, files, visited,
                   advances, success_printed, pc, fnVars>>

\* Variables loop: the request is made and c.retrieve raises
RequestFail ==
    /\ pc = "vars"
    /\ k < Len(variables)
    /\ variables[k + 1] \in DOMAIN era5
    /\ requests' = Append(requests, retrieve_call)
    /\ error' = "RetrieveError"
    /\ pc' = "aborted"
    /\ UNCHANGED <<config, monthly_date, j, k, year, month, vdate, files, visited,
                   advances, success_printed, fnVars>>

\* Mutant: the cursor advances before the last variable is requested
NextMonth_before_last ==
    /\ pc = "vars"
    /\ k >= Len(variables) - 1
    /\ monthly_date' = addmonths4date(monthly_date, 1)
    /\ advances' = advances + 1
    /\ j' = j + 1
    /\ pc' = "loop"
    /\ UNCHANGED <<config, k, year, month, vdate, requests, files, visited,
                   success_printed, error, fnVars>>

\* Next iteration to monthly date: add one month to current monthly date.
\* The configured years lie far inside MINYEAR..MAXYEAR, so the date
\* constructor does not raise here.
NextMonth ==
    /\ pc = "vars"
    /\ k = Len(variables)
    /\ monthly_date' = addmonths4date(monthly_date, 1)
    /\ advances' = advances + 1
    /\ j' = j + 1
    /\ pc' = "loop"
    /\ UNCHANGED <<config, k, year, month, vdate, requests, files, visited,
                   success_printed, error, fnVars>>

\* The loop is over: print output message on screen
Finish ==
    /\ pc = "loop"
    /\ j >= len_monthly_dates
    /\ success_printed' = TRUE
    /\ pc' = "done"
    /\ UNCHANGED <<config, monthly_date, j, k, year, month, vdate, requests, files,
                   visited, advances, error, fnVars>>

Next == BeginMonth \/ LookupFail \/ RequestOK \/ RequestFail \/ NextMonth \/ Finish

Spec == Init /\ [][Next]_vars

SpecCalendar == InitCalendar /\ [][Next]_vars


---------------------------------------------------------------------------
(* The month-advance function on its own: one application to a date and a  *)
(* month count drawn from bounded sets.                                    *)

\* The years the function is applied in: a leap year, the year before a leap
\* year, the year before a century year that is no leap year, and the last
\* year datetime.date accepts.
FnYears == {2000, 2019, 2099, MAXYEAR}

runIdle ==
    /\ pipeline = "request"
    /\ year_start = 2020
    /\ month_start = 11
    /\ year_end = 2020
    /\ month_end = 12
    /\ n_overlap = 1
    /\ time = "00/06/12/18"
    /\ variables = <<>>
    /\ era5 = RequestTable
    /\ monthly_date = Date(2020, 11, 1)
    /\ j = 0
    /\ k = 0
    /\ year = 0
    /\ month = 0
    /\ vdate = ""
    /\ requests = <<>>
    /\ files = {}
    /\ visited = <<>>
    /\ advances = 0
    /\ success_printed = FALSE
    /\ error = "none"
    /\ pc = "idle"

InitFn ==
    /\ runIdle
    /\ fn_date \in {Date(y, m, d) : y \in FnYears, m \in 1..12, d \in 1..31} \ {ValueError}
    /\ fn_n \in 0..MaxAdd
    /\ fn_result = ValueError
    /\ fn_pc = "ready"

\* addmonths4date(date, addmonths) / add_months(sourcedate, months) is called
CallAddMonths ==
    /\ fn_pc = "ready"
    /\ fn_result' = addmonths4date(fn_date, fn_n)
    /\ fn_pc' = IF addmonths4date(fn_date, fn_n) = ValueError THEN "raised" ELSE "returned"
    /\ UNCHANGED <<runVars, fn_date, fn_n>>

NextFn == CallAddMonths

SpecFn == InitFn /\ [][NextFn]_vars


---------------------------------------------------------------------------
(* The calendar the properties are stated against, defined day by day and  *)
(* month by month rather than through ordinals.                            *)

DaysInRef(y, m) ==
    CASE m \in {4, 6, 9, 11} -> 30
      [] m = 2 -> IF (y % 4 = 0 /\ y % 100 # 0) \/ y % 400 = 0 THEN 29 ELSE 28
      [] OTHER -> 31

ValidDateRef(d) ==
    /\ DOMAIN d = {"year", "month", "day"}
    /\ d.year \in MINYEAR..MAXYEAR
    /\ d.month \in 1..12
    /\ d.day \in 1..DaysInRef(d.year, d.month)

RECURSIVE MonthAfterRef(_, _, _)
MonthAfterRef(y, m, n) ==
    IF n = 0 THEN <<y, m>>
    ELSE IF m = 12 THEN MonthAfterRef(y + 1, 1, n - 1)
    ELSE MonthAfterRef(y, m + 1, n - 1)

NextDayRef(d) ==
    IF d.day < DaysInRef(d.year, d.month) THEN [d EXCEPT !.day = d.day + 1]
    ELSE IF d.month < 12 THEN [year |-> d.year, month |-> d.month + 1, day |-> 1]
    ELSE [year |-> d.year + 1, month |-> 1, day |-> 1]

PrevDayRef(d) ==
    IF d.day > 1 THEN [d EXCEPT !.day = d.day - 1]
    ELSE IF d.month > 1
         THEN [year |-> d.year, month |-> d.month - 1, day |-> DaysInRef(d.year, d.month - 1)]
    ELSE [year |-> d.year - 1, month |-> 12, day |-> 31]

RECURSIVE PlusDaysRef(_, _)
PlusDaysRef(d, n) == IF n = 0 THEN d ELSE PlusDaysRef(NextDayRef(d), n - 1)

RECURSIVE MinusDaysRef(_, _)
MinusDaysRef(d, n) == IF n = 0 THEN d ELSE MinusDaysRef(PrevDayRef(d), n - 1)

TwoDigitsRef(n) == DigitChar(n \div 10) \o DigitChar(n % 10)

\* yyyy-mm-dd of a date whose year has four digits
IsoRef(d) ==
    TwoDigitsRef(d.year \div 100) \o TwoDigitsRef(d.year % 100) \o "-"
    \o TwoDigitsRef(d.month) \o "-" \o TwoDigitsRef(d.day)

\* The window of month (y, m) with v overlapping days, as start/end
WindowRef(y, m, v) ==
    IsoRef(MinusDaysRef([year |-> y, month |-> m, day |-> 1], v)) \o "/"
    \o IsoRef(PlusDaysRef([year |-> y, month |-> m, day |-> DaysInRef(y, m)], v))

\* N of the configured range
MonthCount == (year_end - year_start) * 12 + (month_end - month_start) + 1

\* M: the months a run goes through
MonthsOfRun == IF MonthCount > 0 THEN MonthCount ELSE 0

MonthIndex(ym) == ym[1] * 12 + ym[2]

Humidity == {"specific_humidity", "relative_humidity"}

---------------------------------------------------------------------------
(* Properties *)

\* C1: when the end month is not before the start month, the j-th month the
\* loop visits is the calendar month j months after the start month, the
\* visited months strictly increase, and a run that completes has visited
\* exactly N months, the first the start month and the last the end month.
MonthlyLoopVisitsRange ==
    MonthCount >= 1 =>
        /\ \A i \in 1..Len(visited) :
               visited[i] = MonthAfterRef(year_start, month_start, i - 1)
        /\ \A a, b \in 1..Len(visited) :
               a < b => MonthIndex(visited[a]) < MonthIndex(visited[b])
        /\ Len(visited) <= MonthCount
        /\ pc = "done" =>
               /\ Len(visited) = MonthCount
               /\ visited[1] = <<year_start, month_start>>
               /\ visited[MonthCount] = <<year_end, month_end>>

\* C1 witness: a completed run over three months that crosses December to January
WitnessRangeAcrossNewYear ==
    /\ pc = "done"
    /\ Len(visited) = 3
    /\ visited[1] = <<2020, 12>>
    /\ visited[3] = <<2021, 2>>

\* C2: the date window of the month being processed, and the date of every
\* request made, is (first day of the month minus V days)/(last day of the
\* month plus V days) for the configured V.
DateWindowIsMonthPlusOverlap ==
    /\ pc = "vars" => vdate = WindowRef(year, month, n_overlap)
    /\ \A i \in 1..Len(requests) :
           /\ <<requests[i].year, requests[i].month>> = visited[requests[i].j + 1]
           /\ requests[i].options.date =
                  WindowRef(requests[i].year, requests[i].month, n_overlap)

\* C2 witness: with two overlapping days, a December request whose window
\* ends in the next year and a January request whose window starts in the
\* previous year
WitnessWindowAcrossYear ==
    /\ n_overlap = 2
    /\ \E i \in 1..Len(requests) :
           /\ requests[i].month = 12
           /\ requests[i].options.date = "2020-11-29/2021-01-02"
    /\ \E i \in 1..Len(requests) :
           /\ requests[i].month = 1
           /\ requests[i].options.date = "2020-12-30/2021-02-02"


\* C3 as stated: for every date D and n >= 0 the function returns a valid
\* date R with year(R)*12 + month(R) = year(D)*12 + month(D) + n and
\* day(R) = min(day(D), days in R's month).
AddMonthsAlwaysReturnsDate ==
    fn_pc # "ready" =>
        /\ fn_pc = "returned"
        /\ ValidDateRef(fn_result)
        /\ fn_result.year * 12 + fn_result.month = fn_date.year * 12 + fn_date.month + fn_n
        /\ fn_result.day =
               IF fn_date.day < DaysInRef(fn_result.year, fn_result.month)
               THEN fn_date.day ELSE DaysInRef(fn_result.year, fn_result.month)

\* The month n months after D lies in a year datetime.date accepts
TargetYearInRange == (fn_date.year * 12 + fn_date.month - 1 + fn_n) \div 12 <= MAXYEAR

\* C3 amended: when the target month lies in a year up to MAXYEAR the function
\* returns that valid date, the day clamped to the target month; when it lies
\* beyond, the date constructor raises and no date is returned.
AddMonthsReturnsDateInRange ==
    fn_pc # "ready" =>
        IF TargetYearInRange
        THEN /\ fn_pc = "returned"
             /\ ValidDateRef(fn_result)
             /\ <<fn_result.year, fn_result.month>> =
                    MonthAfterRef(fn_date.year, fn_date.month, fn_n)
             /\ fn_result.year * 12 + fn_result.month
                    = fn_date.year * 12 + fn_date.month + fn_n
             /\ fn_result.day =
                    IF fn_date.day < DaysInRef(fn_result.year, fn_result.month)
                    THEN fn_date.day ELSE DaysInRef(fn_result.year, fn_result.month)
        ELSE fn_pc = "raised"

\* C3 witness: 31 January 2019 advanced by 13 months is clamped to the leap
\* day 29 February 2020
WitnessAddMonthsClampsAcrossYears ==
    /\ fn_pc = "returned"
    /\ fn_date = [year |-> 2019, month |-> 1, day |-> 31]
    /\ fn_n = 13
    /\ fn_result = [year |-> 2020, month |-> 2, day |-> 29]

\* C4: requests are made one after another in month-major order, request
\* number i being variable (i-1) mod K of month (i-1) div K; the cursor has
\* advanced once per finished month, after all K variables of that month;
\* and a run that ends without a failure has made exactly M x K requests
\* and M advances.
RequestsInMonthMajorOrder ==
    LET K == Len(variables) IN
    /\ \A i \in 1..Len(requests) :
           /\ requests[i].j * K + requests[i].k = i - 1
           /\ requests[i].k < K
           /\ requests[i].vname = variables[requests[i].k + 1]
           /\ <<requests[i].year, requests[i].month>>
                  = MonthAfterRef(year_start, month_start, requests[i].j)
    /\ advances = j
    /\ error = "none" =>
           /\ pc = "loop" => Len(requests) = advances * K
           /\ pc = "vars" => Len(requests) = advances * K + k
           /\ pc = "done" =>
                  /\ Len(requests) = MonthsOfRun * K
                  /\ advances = MonthsOfRun

\* C4 witness: a completed run of two variables over three months
WitnessSixRequests ==
    /\ pc = "done"
    /\ Len(variables) = 2
    /\ MonthCount = 3
    /\ Len(requests) = 6
    /\ requests[2].vname # requests[1].vname
    /\ requests[3].month # requests[2].month

\* C5: a request for specific_humidity or relative_humidity carries
\* pressure_level '1000' and goes to the pressure-level product; any other
\* request goes to the single-level product and has no pressure_level key.
PressureLevelOnlyForHumidity ==
    \A i \in 1..Len(requests) :
        IF requests[i].options.variable \in Humidity
        THEN /\ "pressure_level" \in DOMAIN requests[i].options
             /\ requests[i].options.pressure_level = "1000"
             /\ requests[i].product = "reanalysis-era5-pressure-levels"
        ELSE /\ "pressure_level" \notin DOMAIN requests[i].options
             /\ requests[i].product = "reanalysis-era5-single-levels"

\* C5 witness: a relative_humidity request directly followed by a request
\* for a variable that is no humidity
WitnessSurfaceAfterHumidity ==
    \E i \in 1..Len(requests) - 1 :
        /\ requests[i].options.variable = "relative_humidity"
        /\ requests[i + 1].options.variable = "2m_temperature"

\* C6: the time of a sea_surface_temperature request is '12', the time of
\* any other request is the configured hour list, and no step changes the
\* configured hour list.
TimeFieldFollowsVariable ==
    /\ [](\A i \in 1..Len(requests) :
              requests[i].options.time =
                  IF requests[i].options.variable = "sea_surface_temperature"
                  THEN "12" ELSE time)
    /\ [][time' = time]_vars

\* C6 witness: with the six-hourly list configured, a sea_surface_temperature
\* request and a request for another variable
WitnessFixedHourBesideConfigured ==
    /\ time = "00/06/12/18"
    /\ \E i \in 1..Len(requests) :
           /\ requests[i].options.variable = "sea_surface_temperature"
           /\ requests[i].options.time = "12"
    /\ \E i \in 1..Len(requests) :
           /\ requests[i].options.variable = "specific_humidity"
           /\ requests[i].options.time = "00/06/12/18"


\* The configured variables the table holds have pairwise distinct file tags
FileTagsDistinct ==
    \A a, b \in 1..Len(variables) :
        (a < b /\ variables[a] \in DOMAIN era5 /\ variables[b] \in DOMAIN era5)
            => file_tag(pipeline, era5, variables[a]) # file_tag(pipeline, era5, variables[b])

\* C7 as stated: for any variable list and metadata table, no two requests
\* of a run have the same output path.
OutputPathsAlwaysDistinct ==
    \A a, b \in 1..Len(requests) : a < b => requests[a].output # requests[b].output

\* C7 amended: when the configured variables have pairwise distinct file tags
\* (the abbreviation in the analysis pipeline, the uppercased identifier in
\* the request pipeline), no two requests of a run have the same output path,
\* and the path is directory/ERA5_ecmwf_<tag>_Y<year>M<two-digit month>.nc.
OutputPathsDistinctForDistinctTags ==
    /\ \A i \in 1..Len(requests) :
           requests[i].output =
               (IF pipeline = "request" THEN "./ERA5/" ELSE "./ERA5_analysis/")
               \o "ERA5_ecmwf_"
               \o (IF pipeline = "request" THEN upper(requests[i].vname)
                   ELSE era5[requests[i].vname][3])
               \o "_Y" \o TwoDigitsRef(requests[i].year \div 100)
               \o TwoDigitsRef(requests[i].year % 100)
               \o "M" \o TwoDigitsRef(requests[i].month) \o ".nc"
    /\ FileTagsDistinct => OutputPathsAlwaysDistinct

\* C7 witness: a completed run of two variables with distinct tags over
\* three months, December to February
WitnessSixDistinctPaths ==
    /\ pc = "done"
    /\ FileTagsDistinct
    /\ Len(requests) = 6
    /\ Cardinality(files) = 6
    /\ \E i \in 1..Len(requests) : requests[i].output = "./ERA5/ERA5_ecmwf_SST_Y2021M01.nc"

\* The first position of the variable list whose identifier the table lacks
FirstAbsent ==
    CHOOSE a \in 1..Len(variables) :
        /\ variables[a] \notin DOMAIN era5
        /\ \A b \in 1..(a - 1) : variables[b] \in DOMAIN era5

\* C8: no request is ever made for an identifier the table lacks; when the
\* list names one, only the variables before it are requested, in the first
\* month only, the cursor never advances and the success message is never
\* printed; the run ends with the lookup error at that variable.
LookupFailureAbortsRun ==
    /\ \A i \in 1..Len(requests) : requests[i].vname \in DOMAIN era5
    /\ ((\E a \in 1..Len(variables) : variables[a] \notin DOMAIN era5) /\ MonthCount >= 1) =>
           /\ \A i \in 1..Len(requests) :
                  requests[i].j = 0 /\ requests[i].k + 1 < FirstAbsent
           /\ Len(visited) <= 1
           /\ advances = 0
           /\ ~success_printed
           /\ pc # "done"
           /\ (pc = "vars" /\ k + 1 = FirstAbsent) => ENABLED LookupFail
    /\ error = "KeyError" =>
           /\ pc = "aborted"
           /\ variables[k + 1] \notin DOMAIN era5
           /\ k + 1 = FirstAbsent
           /\ Len(requests) = k
           /\ ~ENABLED Next

\* C8 witness: the run aborted at the second variable after the first was requested
WitnessAbortAtSecondVariable ==
    /\ error = "KeyError"
    /\ pc = "aborted"
    /\ k = 1
    /\ Len(requests) = 1
    /\ Cardinality(files) = 1

\* C9: when the retrieval call fails the run is aborted at that request: it
\* is the last request made, nothing further can happen, the cursor has
\* advanced only for the months finished before, the success message is not
\* printed, and the files on disk are those of the earlier requests.
RetrieveFailureAbortsRun ==
    error = "RetrieveError" =>
        /\ pc = "aborted"
        /\ ~ENABLED Next
        /\ Len(requests) = j * Len(variables) + k + 1
        /\ requests[Len(requests)].j = j
        /\ requests[Len(requests)].k = k
        /\ advances = j
        /\ ~success_printed
        /\ files = {requests[i].output : i \in 1..(Len(requests) - 1)}

\* C9 witness: the retrieval failed at the first request of the second month,
\* after two completed requests whose files are on disk
WitnessFailureInSecondMonth ==
    /\ error = "RetrieveError"
    /\ j = 1
    /\ k = 0
    /\ Len(requests) = 3
    /\ Cardinality(files) = 2

\* C10: when the end month precedes the start month the month count is <= 0,
\* no month is visited, no window computed, no request made and no file
\* written; the loop body cannot be entered, and the run ends without an
\* error after printing the final message.
EmptyRangeMakesNoRequest ==
    (year_end * 12 + month_end < year_start * 12 + month_start) =>
        /\ len_monthly_dates <= 0
        /\ visited = <<>>
        /\ vdate = ""
        /\ requests = <<>>
        /\ files = {}
        /\ j = 0
        /\ advances = 0
        /\ error = "none"
        /\ ~ENABLED BeginMonth
        /\ \/ pc = "loop" /\ ENABLED Finish
           \/ pc = "done" /\ success_printed /\ ~ENABLED Next

\* C10 witness: a run whose end month is two months before its start month has ended
WitnessEmptyRangeDone ==
    /\ MonthCount = -1
    /\ variables # <<>>
    /\ pc = "done"
    /\ success_printed

=============================================================================
